---------------------------- MODULE Spec2Model ----------------------------
(***************************************************************************)
(* A model of the DX-Ball clone in src/21201172.cpp.                       *)
(*                                                                         *)
(* Number representation.  The program computes in float/double; the model *)
(* computes in fixed point:                                                *)
(*   lengths and positions   tenths of a pixel        (800 px = 8000)      *)
(*   velocities and speeds   tenths of a pixel per second                  *)
(*   times                   milliseconds                                  *)
(*   angles                  whole degrees, sin/cos scaled by 10000        *)
(* Every product with a time or a ratio is rounded to the nearest unit.    *)
(* rand() is the C library's generator (the build line of the source names *)
(* MinGW, whose rand is the MSVCRT linear congruential generator); its     *)
(* 32-bit state is kept as two 16-bit halves and the seed (srand(time))    *)
(* is drawn in Init.                                                       *)
(***************************************************************************)
EXTENDS Integers, Sequences, FiniteSets, TLC

(***************************************************************************)
(* Program constants (src/21201172.cpp, Part 2 and Part 3).                *)
(***************************************************************************)
WIN_W == 800 * 10
WIN_H == 600 * 10
MAX_RECENT == 5
FIRE_RATE == 300
PERK_DROP_PROB == 25
BALL_SPEED_MAX == 900 * 10
BALL_SPEED_INCREASE_RATE == 5 * 10
RAND_MAX == 32767
TIMER_PERIOD == 16
DT_CLAMP == 100

GameStates == {"GS_MENU", "GS_PLAYING", "GS_PAUSED", "GS_LEVEL_CLEAR",
               "GS_GAMEOVER", "GS_HELP", "GS_SCOREBOARD", "GS_MUSIC_MENU"}

(***************************************************************************)
(* Bounds of the model.                                                    *)
(***************************************************************************)
\* levels 1..MaxLevel are generated
MaxLevel == 10
\* srand seeds 1..MaxSeed
MaxSeed == 6
\* the clock runs up to MaxQuanta * 40 ms past the start or a snapshot
MaxQuanta == 4
\* scores.txt holds up to MaxFileLen lines when the program starts
MaxFileLen == 5
\* calls of saveScore and saveHighScore followed, per behaviour
MaxSaves == 3
\* input events that change the state, per behaviour
MaxInputs == 2
\* the time (ms) and the input events followed when only firing is looked at
MaxFireTime == 480
MaxFireInputs == 4

VARIABLES
    gameState, currentLevel, ball, paddle, bricks, perks, projectiles,
    score, lives, highScore, bricksRemaining, gameStartTime, elapsedTime,
    fireCooldown, keyLeft, keyRight,
    rng,            \* the state of rand(): <<high half, low half>>
    clock,          \* glutGet(GLUT_ELAPSED_TIME), ms
    last,           \* static int last of timerFunc
    scoreFile,      \* scores.txt: a sequence of lines, each a digit string
    highScoreFile,  \* highscore.txt: the integer it holds
    exited,         \* exit(0) was called
    hist            \* history of the last handler run (not program state)

vars == <<gameState, currentLevel, ball, paddle, bricks, perks, projectiles,
          score, lives, highScore, bricksRemaining, gameStartTime,
          elapsedTime, fireCooldown, keyLeft, keyRight, rng,
          clock, last, scoreFile, highScoreFile, exited, hist>>

(***************************************************************************)
(* Fixed-point helpers.                                                    *)
(***************************************************************************)
Abs(n) == IF n < 0 THEN -n ELSE n

Min(a, b) == IF a < b THEN a ELSE b

Max(a, b) == IF a > b THEN a ELSE b

\* n / d rounded to the nearest integer (d > 0)
Round(n, d) == (2 * n + d) \div (2 * d)

\* v * dt for a velocity v (units per second) and dt in ms
MulDt(v, dt) == Round(v * dt, 1000)

RECURSIVE SqrtSearch(_, _, _)
SqrtSearch(n, lo, hi) ==
    IF lo >= hi THEN lo
    ELSE LET mid == (lo + hi + 1) \div 2
         IN IF mid * mid <= n THEN SqrtSearch(n, mid, hi)
            ELSE SqrtSearch(n, lo, mid - 1)

\* sqrtf, to the nearest unit
Sqrt(n) ==
    LET r == SqrtSearch(n, 0, 32767)
    IN IF n - r * r > r THEN r + 1 ELSE r

SinTab ==
    <<0, 175, 349, 523, 698, 872, 1045, 1219, 1392, 1564, 1736, 1908, 2079,
      2250, 2419, 2588, 2756, 2924, 3090, 3256, 3420, 3584, 3746, 3907, 4067,
      4226, 4384, 4540, 4695, 4848, 5000, 5150, 5299, 5446, 5592, 5736, 5878,
      6018, 6157, 6293, 6428, 6561, 6691, 6820, 6947, 7071, 7193, 7314, 7431,
      7547, 7660, 7771, 7880, 7986, 8090, 8192, 8290, 8387, 8480, 8572, 8660,
      8746, 8829, 8910, 8988, 9063, 9135, 9205, 9272, 9336, 9397, 9455, 9511,
      9563, 9613, 9659, 9703, 9744, 9781, 9816, 9848, 9877, 9903, 9925, 9945,
      9962, 9976, 9986, 9994, 9998, 10000>>

\* sinf of an angle in degrees, scaled by 10000
Sin(deg) ==
    LET a == deg % 360
    IN IF a <= 90 THEN SinTab[a + 1]
       ELSE IF a <= 180 THEN SinTab[180 - a + 1]
       ELSE IF a <= 270 THEN -SinTab[a - 180 + 1]
       ELSE -SinTab[360 - a + 1]

\* cosf of an angle in degrees, scaled by 10000
Cos(deg) == Sin(deg + 90)

(***************************************************************************)
(* rand(): state' = state * 214013 + 2531011 (mod 2^32), the value is bits *)
(* 16..30 of the new state.  214013 = 3 * 65536 + 17405 and                *)
(* 2531011 = 38 * 65536 + 40643.                                           *)
(***************************************************************************)
RandNext(r) ==
    LET p0 == r[2] * 17405
        lo1 == (p0 % 65536) + 40643
        hi1 == r[1] * 17405 + r[2] * 3 + (p0 \div 65536) + 38 + (lo1 \div 65536)
    IN <<hi1 % 65536, lo1 % 65536>>

RandVal(r) == r[1] % (RAND_MAX + 1)

\* srand(seed)
Srand(seed) == <<seed \div 65536, seed % 65536>>

(***************************************************************************)
(* The program state as one record, so that the functions of the source    *)
(* are operators from state to state.                                      *)
(***************************************************************************)
World ==
    [gameState |-> gameState, currentLevel |-> currentLevel, ball |-> ball,
     paddle |-> paddle, bricks |-> bricks, perks |-> perks,
     projectiles |-> projectiles, score |-> score, lives |-> lives,
     highScore |-> highScore, bricksRemaining |-> bricksRemaining,
     gameStartTime |-> gameStartTime, elapsedTime |-> elapsedTime,
     fireCooldown |-> fireCooldown, rng |-> rng, scoreFile |-> scoreFile,
     highScoreFile |-> highScoreFile]

SetWorld(w) ==
    /\ gameState' = w.gameState
    /\ currentLevel' = w.currentLevel
    /\ ball' = w.ball
    /\ paddle' = w.paddle
    /\ bricks' = w.bricks
    /\ perks' = w.perks
    /\ projectiles' = w.projectiles
    /\ score' = w.score
    /\ lives' = w.lives
    /\ highScore' = w.highScore
    /\ bricksRemaining' = w.bricksRemaining
    /\ gameStartTime' = w.gameStartTime
    /\ elapsedTime' = w.elapsedTime
    /\ fireCooldown' = w.fireCooldown
    /\ rng' = w.rng
    /\ scoreFile' = w.scoreFile
    /\ highScoreFile' = w.highScoreFile

(***************************************************************************)
(* Part 6: initialization and level creation.                              *)
(***************************************************************************)
resetPaddleAndBall(w) ==
    LET pw == 120 * 10
        px == (WIN_W - pw) \div 2
        py == 50 * 10
        ph == 16 * 10
        rad == 8 * 10
    IN [w EXCEPT
          !.paddle = [x |-> px, y |-> py, w |-> pw, h |-> ph,
                      speed |-> 600 * 10],
          !.ball = [x |-> px + pw \div 2, y |-> py + ph + rad + 10,
                    vx |-> 0, vy |-> 0, radius |-> rad, speed |-> 380 * 10,
                    stuck |-> TRUE, isFireball |-> FALSE,
                    fireballTimer |-> 0]]

\* The grid of createBricksForLevel: the geometry of a brick is fixed by its
\* place in the vector (row-major, 10 columns), so the model keeps hits, alive
\* and type per brick and computes x, y, w, h from the index.
Cols == 10

Rows(level) == Min(3 + level, 8)

BrickW == (WIN_W - 2 * 600 - (Cols - 1) * 60) \div Cols

BrickH == 22 * 10

BrickX(i) == 600 + ((i - 1) % Cols) * (BrickW + 60)

BrickY(i) == (WIN_H - 100 * 10) - ((i - 1) \div Cols) * (BrickH + 60)

\* b.hits with the tough bricks starting one level late
BrickHits_Late(level, rv) ==
    IF (rv % 100) < Max(0, level - 2) * 15 THEN 2 ELSE 1

\* b.hits of one brick from one rand() value
BrickHits(level, rv) == IF (rv % 100) < Max(0, level - 1) * 15 THEN 2 ELSE 1

\* b.type of one brick from one rand() value:
\* rand()/(RAND_MAX+1.0f) < PERK_DROP_PROB + 0.02f*(level-1)
BrickType(level, rv) ==
    IF rv * 100 < (PERK_DROP_PROB + 2 * (level - 1)) * (RAND_MAX + 1)
    THEN 1 ELSE 0

\* the loop body of createBricksForLevel, repeated until the vector holds n
\* bricks, from rand() state r; acc holds the vector and the bricksRemaining
\* counter so far
RECURSIVE GenBricks(_, _, _, _)
GenBricks(level, n, r, acc) ==
    IF Len(acc.bricks) >= n
    THEN [bricks |-> acc.bricks, remaining |-> acc.remaining, rng |-> r]
    ELSE LET r1 == RandNext(r)
             r2 == RandNext(r1)
             b == [hits |-> BrickHits(level, RandVal(r1)), alive |-> TRUE,
                   type |-> BrickType(level, RandVal(r2))]
         IN GenBricks(level, n, r2,
                      [bricks |-> Append(acc.bricks, b),
                       remaining |-> acc.remaining + 1])

LevelSpeed(level) == Min(380 * 10 + (level - 1) * 300, BALL_SPEED_MAX)

\* createBricksForLevel without its statement bricksRemaining = 0
createBricksForLevel_NoReset(w, level) ==
    LET g == GenBricks(level, Rows(level) * Cols, w.rng,
                       [bricks |-> <<>>, remaining |-> w.bricksRemaining])
    IN [w EXCEPT !.bricks = g.bricks, !.perks = <<>>, !.projectiles = <<>>,
                 !.bricksRemaining = g.remaining, !.rng = g.rng,
                 !.ball.speed = LevelSpeed(level)]

createBricksForLevel(w, level) ==
    LET g == GenBricks(level, Rows(level) * Cols, w.rng,
                       [bricks |-> <<>>, remaining |-> 0])
    IN [w EXCEPT !.bricks = g.bricks, !.perks = <<>>, !.projectiles = <<>>,
                 !.bricksRemaining = g.remaining, !.rng = g.rng,
                 !.ball.speed = LevelSpeed(level)]

\* startNewGame without score = 0 and lives = 3
startNewGame_KeepScore(w, now) ==
    LET w1 == [w EXCEPT !.currentLevel = 1]
        w2 == resetPaddleAndBall(createBricksForLevel(w1, w1.currentLevel))
    IN [w2 EXCEPT !.gameStartTime = now, !.elapsedTime = 0,
                  !.gameState = "GS_PLAYING"]

\* now is glutGet(GLUT_ELAPSED_TIME)
startNewGame(w, now) ==
    LET w1 == [w EXCEPT !.currentLevel = 1, !.score = 0, !.lives = 3]
        w2 == resetPaddleAndBall(createBricksForLevel(w1, w1.currentLevel))
    IN [w2 EXCEPT !.gameStartTime = now, !.elapsedTime = 0,
                  !.gameState = "GS_PLAYING"]

startLevel(w, level, now) ==
    LET w2 == resetPaddleAndBall(createBricksForLevel(w, level))
    IN [w2 EXCEPT !.gameStartTime = now, !.elapsedTime = 0,
                  !.gameState = "GS_PLAYING"]

(***************************************************************************)
(* Part 10: score persistence.  scores.txt is a sequence of lines; a line  *)
(* is the decimal digit string that operator<< writes for an int, and      *)
(* operator>> reads it back.                                               *)
(***************************************************************************)
RECURSIVE Digits(_)
Digits(n) == IF n < 10 THEN <<n>> ELSE Append(Digits(n \div 10), n % 10)

\* ofs << val
FormatInt(n) ==
    IF n < 0 THEN [neg |-> TRUE, digits |-> Digits(-n)]
    ELSE [neg |-> FALSE, digits |-> Digits(n)]

RECURSIVE DigitsValue(_)
DigitsValue(d) ==
    IF Len(d) = 0 THEN 0
    ELSE DigitsValue(SubSeq(d, 1, Len(d) - 1)) * 10 + d[Len(d)]

\* ifs >> x
ParseInt(t) == IF t.neg THEN -DigitsValue(t.digits) ELSE DigitsValue(t.digits)

loadRecentScores(w) == [i \in 1..Len(w.scoreFile) |-> ParseInt(w.scoreFile[i])]

\* saveScore that appends the new score instead of putting it first
saveScore_Append(w, s) ==
    LET scores == loadRecentScores(w) \o <<s>>
        kept == IF Len(scores) > MAX_RECENT THEN SubSeq(scores, 1, MAX_RECENT)
                ELSE scores
    IN [w EXCEPT !.scoreFile = [i \in 1..Len(kept) |-> FormatInt(kept[i])]]

saveScore(w, s) ==
    LET scores == <<s>> \o loadRecentScores(w)
        kept == IF Len(scores) > MAX_RECENT THEN SubSeq(scores, 1, MAX_RECENT)
                ELSE scores
    IN [w EXCEPT !.scoreFile = [i \in 1..Len(kept) |-> FormatInt(kept[i])]]

\* saveHighScore without the comparison
saveHighScore_Always(w, newScore) ==
    [w EXCEPT !.highScore = newScore, !.highScoreFile = newScore]

saveHighScore(w, newScore) ==
    IF newScore > w.highScore
    THEN [w EXCEPT !.highScore = newScore, !.highScoreFile = newScore]
    ELSE w

(***************************************************************************)
(* Part 7: perks.                                                          *)
(***************************************************************************)
PerkType(t) ==
    IF t < 35 THEN 0
    ELSE IF t < 65 THEN 1
    ELSE IF t < 80 THEN 2
    ELSE IF t < 90 THEN 3
    ELSE IF t < 97 THEN 4
    ELSE 5

spawnPerk(w, x, y) ==
    LET r1 == RandNext(w.rng)
        p == [x |-> x, y |-> y, vy |-> -(150 * 10),
              type |-> PerkType(RandVal(r1) % 100), alive |-> TRUE]
    IN [w EXCEPT !.rng = r1, !.perks = Append(w.perks, p)]

\* PerkEffect without the limits on the paddle width and the ball speed
PerkEffect_NoLimit(w, type) ==
    IF type = 0 THEN [w EXCEPT !.lives = w.lives + 1]
    ELSE IF type = 1
    THEN [w EXCEPT !.paddle.w = w.paddle.w + 40 * 10]
    ELSE IF type = 2
    THEN [w EXCEPT !.ball.speed = Round(w.ball.speed * 115, 100)]
    ELSE IF type = 3
    THEN [w EXCEPT !.ball.isFireball = TRUE, !.ball.fireballTimer = 10000]
    ELSE IF type = 4
    THEN [w EXCEPT !.paddle.w = w.paddle.w - 30 * 10]
    ELSE IF type = 5
    THEN LET w1 == [w EXCEPT !.lives = w.lives - 1]
         IN IF w1.lives <= 0
            THEN [saveHighScore(saveScore(w1, w1.score), w1.score)
                    EXCEPT !.gameState = "GS_GAMEOVER"]
            ELSE resetPaddleAndBall(w1)
    ELSE w

\* the effect of applyPerk on everything but the perk itself
PerkEffect(w, type) ==
    IF type = 0 THEN [w EXCEPT !.lives = w.lives + 1]
    ELSE IF type = 1
    THEN [w EXCEPT !.paddle.w = Min(w.paddle.w + 40 * 10, 280 * 10)]
    ELSE IF type = 2
    THEN [w EXCEPT !.ball.speed =
                      Min(Round(w.ball.speed * 115, 100), BALL_SPEED_MAX)]
    ELSE IF type = 3
    THEN [w EXCEPT !.ball.isFireball = TRUE, !.ball.fireballTimer = 10000]
    ELSE IF type = 4
    THEN [w EXCEPT !.paddle.w = Max(w.paddle.w - 30 * 10, 40 * 10)]
    ELSE IF type = 5
    THEN LET w1 == [w EXCEPT !.lives = w.lives - 1]
         IN IF w1.lives <= 0
            THEN [saveHighScore(saveScore(w1, w1.score), w1.score)
                    EXCEPT !.gameState = "GS_GAMEOVER"]
            ELSE resetPaddleAndBall(w1)
    ELSE w

\* applyPerk without p.alive = false
applyPerk_StaysAlive(w, k) == PerkEffect(w, w.perks[k].type)

\* applyPerk(perks[k])
applyPerk(w, k) ==
    [PerkEffect(w, w.perks[k].type) EXCEPT !.perks[k].alive = FALSE]

(***************************************************************************)
(* Part 8: ball physics and collisions.                                    *)
(***************************************************************************)
\* M_PI/3 + (rand()%100 - 50) * 0.004 radians, in degrees
LaunchAngle(rv) == 60 + Round(((rv % 100) - 50) * 2292, 10000)

launchBall(w) ==
    IF ~w.ball.stuck THEN w
    ELSE LET r1 == RandNext(w.rng)
             angle == LaunchAngle(RandVal(r1))
         IN [w EXCEPT !.rng = r1, !.ball.stuck = FALSE,
                      !.ball.vx = Round(w.ball.speed * Cos(angle), 10000),
                      !.ball.vy = Round(w.ball.speed * Sin(angle), 10000)]

normalizeBallVelocity(w) ==
    LET vmag == Sqrt(w.ball.vx * w.ball.vx + w.ball.vy * w.ball.vy)
    IN IF vmag > 0
       THEN [w EXCEPT !.ball.vx = Round(w.ball.vx * w.ball.speed, vmag),
                      !.ball.vy = Round(w.ball.vy * w.ball.speed, vmag)]
       ELSE w

\* M_PI/2 + rel * 75 degrees, rel = (ball.x - paddle centre) / (paddle.w/2)
BounceAngle(w) ==
    LET half == w.paddle.w \div 2
    IN 90 + Round((w.ball.x - (w.paddle.x + half)) * 75, half)

bounceBallOffPaddle(w) ==
    LET angle == BounceAngle(w)
    IN [w EXCEPT !.ball.y = w.paddle.y + w.paddle.h + w.ball.radius + 10,
                 !.ball.vx = Round(w.ball.speed * Cos(angle), 10000),
                 !.ball.vy = Round(w.ball.speed * Sin(angle), 10000)]

\* if (ball.x - ball.radius <= 0)
WallLeft(w) ==
    IF w.ball.x - w.ball.radius <= 0
    THEN [w EXCEPT !.ball.x = w.ball.radius, !.ball.vx = -w.ball.vx]
    ELSE w

\* if (ball.x + ball.radius >= WIN_W)
WallRight(w) ==
    IF w.ball.x + w.ball.radius >= WIN_W
    THEN [w EXCEPT !.ball.x = WIN_W - w.ball.radius, !.ball.vx = -w.ball.vx]
    ELSE w

\* if (ball.y + ball.radius >= WIN_H)
WallTop(w) ==
    IF w.ball.y + w.ball.radius >= WIN_H
    THEN [w EXCEPT !.ball.y = WIN_H - w.ball.radius, !.ball.vy = -w.ball.vy]
    ELSE w

handleWallCollisions(w) == WallTop(WallRight(WallLeft(w)))

PaddleHit(w) ==
    /\ w.ball.vy < 0
    /\ w.ball.x + w.ball.radius > w.paddle.x
    /\ w.ball.x - w.ball.radius < w.paddle.x + w.paddle.w
    /\ w.ball.y - w.ball.radius < w.paddle.y + w.paddle.h
    /\ w.ball.y + w.ball.radius > w.paddle.y

handlePaddleCollision(w) == IF PaddleHit(w) THEN bounceBallOffPaddle(w) ELSE w

\* the ball's bounding box overlaps brick i
BallOverlaps(w, i) ==
    /\ w.ball.x + w.ball.radius > BrickX(i)
    /\ w.ball.x - w.ball.radius < BrickX(i) + BrickW
    /\ w.ball.y + w.ball.radius > BrickY(i)
    /\ w.ball.y - w.ball.radius < BrickY(i) + BrickH

\* DestroyBrick without bricksRemaining--
DestroyBrick_NoCount(w, i) ==
    LET w1 == [w EXCEPT !.bricks[i].alive = FALSE,
                        !.score = w.score + 10]
    IN IF w.bricks[i].type = 1
       THEN spawnPerk(w1, BrickX(i) + BrickW \div 2, BrickY(i) + BrickH \div 2)
       ELSE w1

\* b.alive = false; bricksRemaining--; score += 10; perk if b.type == 1
DestroyBrick(w, i) ==
    LET w1 == [w EXCEPT !.bricks[i].alive = FALSE,
                        !.bricksRemaining = w.bricksRemaining - 1,
                        !.score = w.score + 10]
    IN IF w.bricks[i].type = 1
       THEN spawnPerk(w1, BrickX(i) + BrickW \div 2, BrickY(i) + BrickH \div 2)
       ELSE w1

\* a hit that scores 10 whether or not it destroys the brick
DamageBrick_Flat(w, i) ==
    LET w1 == [w EXCEPT !.bricks[i].hits = w.bricks[i].hits - 1]
    IN IF w1.bricks[i].hits <= 0 THEN DestroyBrick(w1, i)
       ELSE [w1 EXCEPT !.score = w1.score + 10]

\* b.hits--; destroyed at hits <= 0, else score += 5
DamageBrick(w, i) ==
    LET w1 == [w EXCEPT !.bricks[i].hits = w.bricks[i].hits - 1]
    IN IF w1.bricks[i].hits <= 0 THEN DestroyBrick(w1, i)
       ELSE [w1 EXCEPT !.score = w1.score + 5]

\* the reflection of the non-fireball branch
ReflectOffBrick(w, i) ==
    LET overlapX == (BrickW \div 2 + w.ball.radius)
                    - Abs(w.ball.x - (BrickX(i) + BrickW \div 2))
        overlapY == (BrickH \div 2 + w.ball.radius)
                    - Abs(w.ball.y - (BrickY(i) + BrickH \div 2))
    IN IF overlapX < overlapY THEN [w EXCEPT !.ball.vx = -w.ball.vx]
       ELSE [w EXCEPT !.ball.vy = -w.ball.vy]

\* the loop without the break of the non-fireball branch
RECURSIVE BrickLoop_NoBreak(_, _)
BrickLoop_NoBreak(w, i) ==
    IF i > Len(w.bricks) THEN w
    ELSE IF ~w.bricks[i].alive \/ ~BallOverlaps(w, i)
    THEN BrickLoop_NoBreak(w, i + 1)
    ELSE IF w.ball.isFireball THEN BrickLoop_NoBreak(DestroyBrick(w, i), i + 1)
    ELSE BrickLoop_NoBreak(DamageBrick(ReflectOffBrick(w, i), i), i + 1)

\* the loop of handleBrickCollisions from brick i on
RECURSIVE BrickLoop(_, _)
BrickLoop(w, i) ==
    IF i > Len(w.bricks) THEN w
    ELSE IF ~w.bricks[i].alive \/ ~BallOverlaps(w, i) THEN BrickLoop(w, i + 1)
    ELSE IF w.ball.isFireball THEN BrickLoop(DestroyBrick(w, i), i + 1)
    ELSE DamageBrick(ReflectOffBrick(w, i), i)

handleBrickCollisions(w) == BrickLoop(w, 1)

PerkCaught(w, k) ==
    /\ w.perks[k].x > w.paddle.x
    /\ w.perks[k].x < w.paddle.x + w.paddle.w
    /\ w.perks[k].y < w.paddle.y + w.paddle.h
    /\ w.perks[k].y > w.paddle.y

\* perk k after p.y += p.vy * dt and the test p.y < -40
PerkFall(w, dt, k) ==
    LET y1 == w.perks[k].y + MulDt(w.perks[k].vy, dt)
    IN [w EXCEPT !.perks[k].y = y1,
                 !.perks[k].alive = IF y1 < -(40 * 10) THEN FALSE ELSE TRUE]

\* one pass of the loop body of handlePerks
PerkBody(w, dt, k) ==
    IF ~w.perks[k].alive THEN w
    ELSE LET w1 == PerkFall(w, dt, k)
         IN IF PerkCaught(w1, k) THEN applyPerk(w1, k) ELSE w1

RECURSIVE PerkLoop(_, _, _)
PerkLoop(w, dt, k) ==
    IF k > Len(w.perks) THEN w ELSE PerkLoop(PerkBody(w, dt, k), dt, k + 1)

handlePerks(w, dt) == PerkLoop(w, dt, 1)

\* the point of projectile j lies inside brick i
ProjInBrick(w, j, i) ==
    /\ w.bricks[i].alive
    /\ w.projectiles[j].x > BrickX(i)
    /\ w.projectiles[j].x < BrickX(i) + BrickW
    /\ w.projectiles[j].y > BrickY(i)
    /\ w.projectiles[j].y < BrickY(i) + BrickH

\* one pass of the loop body of handleProjectiles
ProjBody(w, dt, j) ==
    IF ~w.projectiles[j].alive THEN w
    ELSE LET y1 == w.projectiles[j].y + MulDt(w.projectiles[j].vy, dt)
             w1 == [w EXCEPT !.projectiles[j].y = y1,
                             !.projectiles[j].alive =
                                 IF y1 > WIN_H THEN FALSE ELSE TRUE]
             hit == {i \in 1..Len(w1.bricks) : ProjInBrick(w1, j, i)}
         IN IF hit = {} THEN w1
            ELSE LET i == CHOOSE m \in hit : \A n \in hit : m <= n
                 IN DamageBrick([w1 EXCEPT !.projectiles[j].alive = FALSE], i)

RECURSIVE ProjLoop(_, _, _)
ProjLoop(w, dt, j) ==
    IF j > Len(w.projectiles) THEN w
    ELSE ProjLoop(ProjBody(w, dt, j), dt, j + 1)

handleProjectiles(w, dt) == ProjLoop(w, dt, 1)

(***************************************************************************)
(* Part 9: the update loop.  dt and all times are in ms; elapsedTime is    *)
(* the double (now - gameStartTime) / 1000.0, kept as its number of ms.    *)
(***************************************************************************)
\* the speed ramp without normalizeBallVelocity
increaseBallSpeedOverTime_NoNormalize(w, dt) ==
    IF w.ball.stuck THEN w
    ELSE [w EXCEPT !.ball.speed =
             Min(w.ball.speed + MulDt(BALL_SPEED_INCREASE_RATE, dt),
                 BALL_SPEED_MAX)]

increaseBallSpeedOverTime(w, dt) ==
    IF w.ball.stuck THEN w
    ELSE normalizeBallVelocity(
           [w EXCEPT !.ball.speed =
               Min(w.ball.speed + MulDt(BALL_SPEED_INCREASE_RATE, dt),
                   BALL_SPEED_MAX)])

\* elapsedTime = (now - gameStartTime) / 1000.0 and the fire cooldown
UpdateTimers(w, dt, now) ==
    [w EXCEPT !.elapsedTime = now - w.gameStartTime,
              !.fireCooldown = IF w.fireCooldown > 0 THEN w.fireCooldown - dt
                               ELSE w.fireCooldown]

\* the fireball timer
UpdateFireball(w, dt) ==
    IF w.ball.isFireball
    THEN [w EXCEPT !.ball.fireballTimer = w.ball.fireballTimer - dt,
                   !.ball.isFireball = IF w.ball.fireballTimer - dt <= 0
                                       THEN FALSE ELSE TRUE]
    ELSE w

\* if (paddle.x < 0) paddle.x = 0
ClampLow(x) == IF x < 0 THEN 0 ELSE x

\* if (paddle.x + paddle.w > WIN_W) paddle.x = WIN_W - paddle.w
ClampHigh(x, pw) == IF x + pw > WIN_W THEN WIN_W - pw ELSE x

\* the clamp of paddle.x to the window
ClampPaddle(x, pw) == ClampHigh(ClampLow(x), pw)

\* the paddle moved by the held keys and clamped
MovePaddle(w, dt, kl, kr) ==
    [w EXCEPT !.paddle.x =
        ClampPaddle(w.paddle.x
                      - (IF kl THEN MulDt(w.paddle.speed, dt) ELSE 0)
                      + (IF kr THEN MulDt(w.paddle.speed, dt) ELSE 0),
                    w.paddle.w)]

\* the stuck ball follows the paddle, the free ball moves by its velocity
MoveBall(w, dt) ==
    IF w.ball.stuck
    THEN [w EXCEPT !.ball.x = w.paddle.x + w.paddle.w \div 2]
    ELSE [w EXCEPT !.ball.x = w.ball.x + MulDt(w.ball.vx, dt),
                   !.ball.y = w.ball.y + MulDt(w.ball.vy, dt)]

\* updateGame from its first statement to handleWallCollisions
UpdateHead(w, dt, now, kl, kr) ==
    handleWallCollisions(
      MoveBall(MovePaddle(UpdateFireball(UpdateTimers(w, dt, now), dt),
                          dt, kl, kr),
               dt))

\* the test of the miss branch
BallMissed(w) == w.ball.y - w.ball.radius <= 0

\* the miss branch of updateGame
LoseLife(w) ==
    LET w1 == [w EXCEPT !.lives = w.lives - 1]
    IN IF w1.lives <= 0
       THEN [saveHighScore(saveScore(w1, w1.score), w1.score)
               EXCEPT !.gameState = "GS_GAMEOVER"]
       ELSE resetPaddleAndBall(w1)

\* the win check that ends updateGame
WinCheck(w) ==
    IF w.bricksRemaining <= 0
    THEN [saveScore(w, w.score) EXCEPT !.gameState = "GS_LEVEL_CLEAR"]
    ELSE w

\* UpdateTail without the return that ends the miss branch
UpdateTail_NoReturn(h, dt) ==
    WinCheck(
      increaseBallSpeedOverTime(
        handleProjectiles(
          handlePerks(
            handleBrickCollisions(
              handlePaddleCollision(IF BallMissed(h) THEN LoseLife(h) ELSE h)),
            dt),
          dt),
        dt))

\* updateGame after handleWallCollisions
UpdateTail(h, dt) ==
    IF BallMissed(h) THEN LoseLife(h)
    ELSE WinCheck(
           increaseBallSpeedOverTime(
             handleProjectiles(
               handlePerks(handleBrickCollisions(handlePaddleCollision(h)),
                           dt),
               dt),
             dt))

updateGame(w, dt, now, kl, kr) ==
    IF w.gameState # "GS_PLAYING" THEN w
    ELSE UpdateTail(UpdateHead(w, dt, now, kl, kr), dt)

(***************************************************************************)
(* Part 13: input handlers.                                                *)
(***************************************************************************)
\* mouseClick that does not look at the cooldown
mouseClick_NoCooldown(w) ==
    IF w.gameState = "GS_PLAYING"
    THEN LET y == w.paddle.y + w.paddle.h
             p1 == [x |-> w.paddle.x + 10 * 10, y |-> y, vy |-> 500 * 10,
                    alive |-> TRUE]
             p2 == [x |-> w.paddle.x + w.paddle.w - 10 * 10, y |-> y,
                    vy |-> 500 * 10, alive |-> TRUE]
         IN [w EXCEPT !.projectiles = w.projectiles \o <<p1, p2>>,
                      !.fireCooldown = FIRE_RATE]
    ELSE w

\* mouseClick with the left button down
mouseClick(w) ==
    IF w.gameState = "GS_PLAYING" /\ w.fireCooldown <= 0
    THEN LET y == w.paddle.y + w.paddle.h
             p1 == [x |-> w.paddle.x + 10 * 10, y |-> y, vy |-> 500 * 10,
                    alive |-> TRUE]
             p2 == [x |-> w.paddle.x + w.paddle.w - 10 * 10, y |-> y,
                    vy |-> 500 * 10, alive |-> TRUE]
         IN [w EXCEPT !.projectiles = w.projectiles \o <<p1, p2>>,
                      !.fireCooldown = FIRE_RATE]
    ELSE w

\* passiveMouse that moves the paddle in every mode
passiveMouse_AnyMode(w, x) ==
    LET px == x * 10 - w.paddle.w \div 2
    IN [w EXCEPT !.paddle.x = px,
                 !.ball.x = IF w.ball.stuck THEN px + w.paddle.w \div 2
                            ELSE w.ball.x]

\* passiveMouse at window column x (pixels)
passiveMouse(w, x) ==
    IF w.gameState = "GS_PLAYING"
    THEN LET px == x * 10 - w.paddle.w \div 2
         IN [w EXCEPT !.paddle.x = px,
                      !.ball.x = IF w.ball.stuck THEN px + w.paddle.w \div 2
                                 ELSE w.ball.x]
    ELSE w

\* the milliseconds k for which (int)((k / 1000.0) * 1000.0) is k - 1 in IEEE
\* double arithmetic, among 0..1000 (none) and 32000..32470, the elapsed times
\* the model reaches
LossyMs ==
    {32001 + 3 * i : i \in 0..4} \cup {32032 + 3 * i : i \in 0..14}
    \cup {32096 + 3 * i : i \in 0..14} \cup {32157 + 3 * i : i \in 0..14}
    \cup {32221 + 3 * i : i \in 0..14} \cup {32282 + 3 * i : i \in 0..14}
    \cup {32346 + 3 * i : i \in 0..14} \cup {32407 + 3 * i : i \in 0..14}

\* (int)(elapsedTime * 1000.0) for elapsedTime = k / 1000.0
TruncMs(k) == IF k \in LossyMs THEN k - 1 ELSE k

\* the keys pressed: one of each branch of keyboardDown, and one it ignores
Keys == {"ESC", " ", "p", "r", "a", "d", "1", "2", "3", "4", "x"}

\* key 27: exit(0) in the menu (the action sets exited), else to the menu
EscKey(w) ==
    IF w.gameState = "GS_MENU" THEN w ELSE [w EXCEPT !.gameState = "GS_MENU"]

\* the space bar in the menu starts a game
SpaceKey_FromMenu(w, now) ==
    IF w.gameState = "GS_PLAYING" /\ w.ball.stuck THEN launchBall(w)
    ELSE IF w.gameState = "GS_LEVEL_CLEAR"
    THEN startLevel([w EXCEPT !.currentLevel = w.currentLevel + 1],
                    w.currentLevel + 1, now)
    ELSE IF w.gameState \in {"GS_GAMEOVER", "GS_MENU"} THEN startNewGame(w, now)
    ELSE w

\* the space bar that starts the cleared level again
SpaceKey_SameLevel(w, now) ==
    IF w.gameState = "GS_PLAYING" /\ w.ball.stuck THEN launchBall(w)
    ELSE IF w.gameState = "GS_LEVEL_CLEAR"
    THEN startLevel(w, w.currentLevel, now)
    ELSE IF w.gameState = "GS_GAMEOVER" THEN startNewGame(w, now)
    ELSE w

\* the space bar
SpaceKey(w, now) ==
    IF w.gameState = "GS_PLAYING" /\ w.ball.stuck THEN launchBall(w)
    ELSE IF w.gameState = "GS_LEVEL_CLEAR"
    THEN startLevel([w EXCEPT !.currentLevel = w.currentLevel + 1],
                    w.currentLevel + 1, now)
    ELSE IF w.gameState = "GS_GAMEOVER" THEN startNewGame(w, now)
    ELSE w

\* 'p' that resumes without moving gameStartTime
PauseKey_NoAdjust(w, now) ==
    IF w.gameState = "GS_PLAYING" THEN [w EXCEPT !.gameState = "GS_PAUSED"]
    ELSE IF w.gameState = "GS_PAUSED"
    THEN [w EXCEPT !.gameState = "GS_PLAYING"]
    ELSE w

\* 'p' or 'P'
PauseKey(w, now) ==
    IF w.gameState = "GS_PLAYING" THEN [w EXCEPT !.gameState = "GS_PAUSED"]
    ELSE IF w.gameState = "GS_PAUSED"
    THEN [w EXCEPT !.gameState = "GS_PLAYING",
                   !.gameStartTime = now - TruncMs(w.elapsedTime)]
    ELSE w

\* 'r' or 'R'
RestartKey(w, now) ==
    IF w.gameState \in {"GS_PLAYING", "GS_PAUSED"}
    THEN startLevel(w, w.currentLevel, now)
    ELSE w

\* the last two branches: the digits of the menu and of the music menu
MenuKey(w, key, now) ==
    IF w.gameState = "GS_MENU"
    THEN IF key = "1" THEN startNewGame(w, now)
         ELSE IF key = "2" THEN [w EXCEPT !.gameState = "GS_SCOREBOARD"]
         ELSE IF key = "3" THEN [w EXCEPT !.gameState = "GS_MUSIC_MENU"]
         ELSE IF key = "4" THEN [w EXCEPT !.gameState = "GS_HELP"]
         ELSE w
    ELSE IF w.gameState = "GS_MUSIC_MENU"
    THEN IF key \in {"1", "2"} THEN [w EXCEPT !.gameState = "GS_MENU"]
         ELSE w
    ELSE w

\* keyboardDown, but for the flags keyLeft and keyRight and for exit(0)
keyboardDown(w, key, now) ==
    IF key = "ESC" THEN EscKey(w)
    ELSE IF key = " " THEN SpaceKey(w, now)
    ELSE IF key \in {"p", "P"} THEN PauseKey(w, now)
    ELSE IF key \in {"r", "R"} THEN RestartKey(w, now)
    ELSE IF key \in {"a", "A", "d", "D"} THEN w
    ELSE MenuKey(w, key, now)

(***************************************************************************)
(* History (hist).  It records what the last timer callback did, and what  *)
(* the claims need to remember across callbacks; no handler reads it.      *)
(*   ticked        the last handler was a timer callback that ran          *)
(*                 updateGame in GS_PLAYING                                *)
(*   deathAtOne    in it, a type-5 perk was caught while lives was 1       *)
(*   ballN         in it, bricks changed by handleBrickCollisions          *)
(*   ballOverlap   in it, alive bricks the ball overlapped on entry        *)
(*   ballFire      in it, ball.isFireball on entry of the brick step       *)
(*   ballIdx..     in it, the brick hit by the non-fireball ball (0: none),*)
(*                 its hits before and after, its alive flag after, and    *)
(*                 what the step added to score and took from              *)
(*                 bricksRemaining                                         *)
(*   tough         per brick that had hits = 2 when the non-fireball ball  *)
(*                 first hit it: the number of such hits, the points they  *)
(*                 gave and the bricksRemaining they took, since the grid  *)
(*                 was generated                                           *)
(*   pauseAt, resumeAt, resumeElapsed                                      *)
(*                 the clock at the last pause and resume and elapsedTime  *)
(*                 at that resume (-1: no resume is pending)               *)
(*   afterResume   the last handler was the first GS_PLAYING callback      *)
(*                 after that resume                                       *)
(*   inputs        the number of input events that changed the state       *)
(*   modeFrom, modeEvent                                                   *)
(*                 if the last handler changed gameState: the mode it      *)
(*                 left and the event ("tick", "click", "motion" or the    *)
(*                 key); "" otherwise                                      *)
(*   gen           the level whose grid the last handler generated (0:     *)
(*                 none)                                                   *)
(*   file0, hs0    the recent scores and the high score on start           *)
(*   saved         the arguments of the calls of saveScore, in order       *)
(*   highSaved     the arguments of the calls of saveHighScore, in order   *)
(*   hsPrev        highScore before the last call of saveHighScore         *)
(*   applied       applied[k]: how often handlePerks has called applyPerk  *)
(*                 on perks[k] since the vector was last cleared           *)
(*   revived       the last handler found some perk dead and left it alive *)
(*   missed        the last timer callback took the miss branch of         *)
(*                 updateGame                                              *)
(*   bounced       the last timer callback called bounceBallOffPaddle      *)
(*   bounceVx, bounceVy                                                    *)
(*                 the velocity bounceBallOffPaddle gave the ball          *)
(*   bounceOff, bounceHalf                                                 *)
(*                 ball.x - (paddle.x + paddle.w/2) and paddle.w/2 in that *)
(*                 call                                                    *)
(*   fired         the last handler was a mouseClick that pushed           *)
(*                 projectiles                                             *)
(*   firedAfter    sinceFire when that click came                          *)
(*   sinceFire     the sum of dt (ms) over the updateGame calls since the  *)
(*                 last click that pushed projectiles (-1: no such click)  *)
(*   created       the number of projectiles pushed since the vector was   *)
(*                 last cleared                                            *)
(***************************************************************************)
HistNone ==
    [ticked |-> FALSE, deathAtOne |-> FALSE, ballN |-> 0, ballOverlap |-> 0,
     ballFire |-> FALSE, ballIdx |-> 0, ballBefore |-> 0, ballAfter |-> 0,
     ballAlive |-> FALSE, ballScore |-> 0, ballRem |-> 0, tough |-> <<>>,
     pauseAt |-> -1, resumeAt |-> -1, resumeElapsed |-> -1,
     afterResume |-> FALSE, inputs |-> 0, modeFrom |-> "", modeEvent |-> "",
     gen |-> 0, file0 |-> <<>>, hs0 |-> 0, saved |-> <<>>,
     highSaved |-> <<>>, hsPrev |-> 0, applied |-> <<>>, revived |-> FALSE,
     missed |-> FALSE, bounced |-> FALSE, bounceVx |-> 0, bounceVy |-> 0,
     bounceOff |-> 0, bounceHalf |-> 0, fired |-> FALSE, firedAfter |-> -1,
     sinceFire |-> -1, created |-> 0]

\* hist after a handler other than a GS_PLAYING callback that leaves the
\* game running: what the last callback did is forgotten
HistKeep(h) ==
    IF h.afterResume
    THEN [HistNone EXCEPT !.tough = h.tough, !.inputs = h.inputs,
                          !.applied = h.applied,
                          !.sinceFire = h.sinceFire, !.created = h.created]
    ELSE [HistNone EXCEPT !.tough = h.tough, !.inputs = h.inputs,
                          !.applied = h.applied,
                          !.sinceFire = h.sinceFire, !.created = h.created,
                          !.pauseAt = h.pauseAt,
                          !.resumeAt = h.resumeAt,
                          !.resumeElapsed = h.resumeElapsed]

\* some perk that is dead in w0 is alive in w1
Revived(w0, w1) ==
    \E k \in 1..Min(Len(w0.perks), Len(w1.perks)) :
        ~w0.perks[k].alive /\ w1.perks[k].alive

\* h, with the mode change of a handler that took w0 to w1 on event ev, what
\* it did to the dead perks, and no applied[k] for a perk that is gone
ModeHist(h, w0, w1, ev) ==
    [h EXCEPT
       !.modeFrom = IF w1.gameState # w0.gameState THEN w0.gameState ELSE @,
       !.modeEvent = IF w1.gameState # w0.gameState THEN ev ELSE @,
       !.revived = Revived(w0, w1),
       !.applied = IF Len(w1.perks) = 0 THEN <<>> ELSE @]

\* hist after a handler that took w0 to w1
HistAfter(h, w0, w1) ==
    LET k == HistKeep(h)
        regen == w1.gameStartTime # w0.gameStartTime
        k1 == IF w1.gameState \notin {"GS_PLAYING", "GS_PAUSED"} \/ regen
              THEN [k EXCEPT !.pauseAt = -1, !.resumeAt = -1,
                             !.resumeElapsed = -1]
              ELSE IF w1.gameState = "GS_PAUSED"
              THEN [k EXCEPT !.resumeAt = -1, !.resumeElapsed = -1]
              ELSE k
    IN IF w1.bricks # w0.bricks THEN [k1 EXCEPT !.tough = <<>>] ELSE k1

\* whether the loop of handlePerks, from perk k on, catches a type-5 perk
\* while lives is 1
RECURSIVE DeathAtOne(_, _, _)
DeathAtOne(w, dt, k) ==
    IF k > Len(w.perks) THEN FALSE
    ELSE \/ /\ w.perks[k].alive
            /\ w.perks[k].type = 5
            /\ w.lives = 1
            /\ PerkCaught(PerkFall(w, dt, k), k)
         \/ DeathAtOne(PerkBody(w, dt, k), dt, k + 1)

\* the bricks that differ between the worlds a and b
Changed(a, b) == {i \in 1..Len(a.bricks) : a.bricks[i] # b.bricks[i]}

\* the alive bricks the ball of world a overlaps
Overlapped(a) ==
    {i \in 1..Len(a.bricks) : a.bricks[i].alive /\ BallOverlaps(a, i)}

\* the brick a non-fireball ball changed between a and b (0: none)
HitIdx(a, b) ==
    IF a.ball.isFireball \/ Changed(a, b) = {} THEN 0
    ELSE CHOOSE i \in Changed(a, b) : TRUE

\* the record of the two-hit bricks after the ball hit brick idx, for dS
\* points and dR bricks
ToughAfter(t0, a, idx, dS, dR) ==
    IF idx = 0 THEN t0
    ELSE IF idx \in DOMAIN t0
    THEN [t0 EXCEPT ![idx] = [n |-> t0[idx].n + 1, pts |-> t0[idx].pts + dS,
                              rem |-> t0[idx].rem + dR]]
    ELSE IF a.bricks[idx].hits = 2
    THEN [i \in DOMAIN t0 \cup {idx} |->
             IF i = idx THEN [n |-> 1, pts |-> dS, rem |-> dR] ELSE t0[i]]
    ELSE t0

\* applied[k] for every perk of a vector of n
Fit(ap, n) == [k \in 1..n |-> IF k <= Len(ap) THEN ap[k] ELSE 0]

\* ap after the loop of handlePerks has run on w from perk k on
RECURSIVE AppliedAfter(_, _, _, _)
AppliedAfter(ap, w, dt, k) ==
    IF k > Len(w.perks) THEN ap
    ELSE AppliedAfter(
           IF w.perks[k].alive /\ PerkCaught(PerkFall(w, dt, k), k)
           THEN [ap EXCEPT ![k] = @ + 1] ELSE ap,
           PerkBody(w, dt, k), dt, k + 1)

\* what a timer callback keeps of the history h
TickBase(h) ==
    [HistNone EXCEPT
       !.ticked = TRUE, !.tough = h.tough, !.inputs = h.inputs,
       !.applied = h.applied,
       !.pauseAt = IF h.afterResume THEN -1 ELSE h.pauseAt,
       !.resumeAt = IF h.afterResume THEN -1 ELSE h.resumeAt,
       !.resumeElapsed = IF h.afterResume THEN -1 ELSE h.resumeElapsed,
       !.afterResume = (h.resumeAt >= 0 /\ ~h.afterResume)]

\* the history of the brick step that took a to b, the ball having hit idx
BrickHist(h, a, b, idx, dt) ==
    [TickBase(h) EXCEPT
       !.deathAtOne = DeathAtOne(b, dt, 1),
       !.ballN = Cardinality(Changed(a, b)),
       !.ballOverlap = Cardinality(Overlapped(a)),
       !.ballFire = a.ball.isFireball,
       !.ballIdx = idx,
       !.ballBefore = IF idx = 0 THEN 0 ELSE a.bricks[idx].hits,
       !.ballAfter = IF idx = 0 THEN 0 ELSE b.bricks[idx].hits,
       !.ballAlive = IF idx = 0 THEN FALSE ELSE b.bricks[idx].alive,
       !.ballScore = IF idx = 0 THEN 0 ELSE b.score - a.score,
       !.ballRem = IF idx = 0 THEN 0
                   ELSE a.bricksRemaining - b.bricksRemaining,
       !.tough = ToughAfter(h.tough, a, idx, b.score - a.score,
                            a.bricksRemaining - b.bricksRemaining),
       !.applied = AppliedAfter(Fit(h.applied, Len(b.perks)), b, dt, 1)]

\* hist after the callback, a the world on entry of handleBrickCollisions
\* and b the world it leaves
StepHist(h, a, b, dt) == BrickHist(h, a, b, HitIdx(a, b), dt)

\* h, with what handlePaddleCollision did on hd
BounceHist(h, hd) ==
    IF PaddleHit(hd)
    THEN [h EXCEPT
            !.bounced = TRUE,
            !.bounceVx = bounceBallOffPaddle(hd).ball.vx,
            !.bounceVy = bounceBallOffPaddle(hd).ball.vy,
            !.bounceOff = hd.ball.x - (hd.paddle.x + hd.paddle.w \div 2),
            !.bounceHalf = hd.paddle.w \div 2]
    ELSE h

\* hist after the callback, hd the world after handleWallCollisions
HeadHist(h, hd, dt) ==
    IF BallMissed(hd) THEN [TickBase(h) EXCEPT !.missed = TRUE]
    ELSE BounceHist(
           StepHist(h, handlePaddleCollision(hd),
                    handleBrickCollisions(handlePaddleCollision(hd)), dt),
           hd)

\* hist after a timer callback that ran updateGame on w in GS_PLAYING
TickHist(h, w, dt, now, kl, kr) ==
    HeadHist(h, UpdateHead(w, dt, now, kl, kr), dt)

(***************************************************************************)
(* The actions: the GLUT callbacks.  Time passes between timer callbacks;  *)
(* an input handler that reads the clock reads the time of the last        *)
(* callback.  playMusic, stopMusic and openHelpFile touch no state the     *)
(* game reads and are left out.                                            *)
(***************************************************************************)
\* the time (ms) from one timer callback to the next
TickGaps == {40, 120}

\* the clock on which mid-game snapshots are taken
SnapClock == 100 * 1000

\* the latest clock value followed
Deadline == (IF clock >= SnapClock THEN SnapClock ELSE 0) + MaxQuanta * 40

\* window columns the pointer is moved to
MouseXs == {0, 600}

\* h1, the history after an updateGame call of dt ms that began on h, with
\* the play time and the projectile count carried over
PlayHist(h1, h, dt) ==
    [h1 EXCEPT !.sinceFire = IF h.sinceFire < 0 THEN -1 ELSE h.sinceFire + dt,
               !.created = h.created]

\* h1, the history after a mouseClick that began on h and took w0 to w1
ClickHist(h1, h, w0, w1) ==
    IF Len(w1.projectiles) > Len(w0.projectiles)
    THEN [h1 EXCEPT !.fired = TRUE, !.firedAfter = h.sinceFire,
                    !.sinceFire = 0,
                    !.created = h.created + Len(w1.projectiles)
                                - Len(w0.projectiles)]
    ELSE h1

\* timerFunc, gap ms after it last ran
TimerStep(gap) ==
    /\ ~exited
    /\ gap >= TIMER_PERIOD
    /\ LET now == clock + gap
           dt == Min(now - last, DT_CLAMP)
       IN /\ clock' = now
          /\ last' = now
          /\ IF gameState = "GS_PLAYING"
             THEN /\ SetWorld(updateGame(World, dt, now, keyLeft, keyRight))
                  /\ hist' = PlayHist(
                                ModeHist(
                                  TickHist(hist, World, dt, now, keyLeft,
                                           keyRight),
                                  World,
                                  updateGame(World, dt, now, keyLeft,
                                             keyRight),
                                  "tick"),
                                hist, dt)
             ELSE /\ SetWorld(World)
                  /\ hist' = HistKeep(hist)
    /\ UNCHANGED <<keyLeft, keyRight, exited>>

\* timerFunc, as long as the clock stays within the time followed
TimerFunc(gap) == clock + gap <= Deadline /\ TimerStep(gap)

\* an input handler that takes the state to w1, kl, kr, ex and the history
\* to h1, while fewer than n inputs have been followed; a handler that
\* changes nothing does not count as an input
InputUpTo(n, w1, kl, kr, ex, h1) ==
    LET changed == w1 # World \/ kl # keyLeft \/ kr # keyRight \/ ex
    IN /\ ~exited
       /\ changed => hist.inputs < n
       /\ SetWorld(w1)
       /\ keyLeft' = kl
       /\ keyRight' = kr
       /\ exited' = ex
       /\ hist' = IF changed THEN [h1 EXCEPT !.inputs = hist.inputs + 1]
                  ELSE hist
       /\ UNCHANGED <<clock, last>>

InputStep(w1, kl, kr, ex, h1) == InputUpTo(MaxInputs, w1, kl, kr, ex, h1)

\* hist after mouseClick
MouseClickHist ==
    ClickHist(ModeHist(HistAfter(hist, World, mouseClick(World)), World,
                       mouseClick(World), "click"),
              hist, World, mouseClick(World))

MouseClick ==
    InputStep(mouseClick(World), keyLeft, keyRight, FALSE, MouseClickHist)

PassiveMouse(x) ==
    LET w1 == passiveMouse(World, x)
    IN InputStep(w1, keyLeft, keyRight, FALSE,
                 ModeHist(HistAfter(hist, World, w1), World, w1, "motion"))

\* the level keyboardDown starts on key in w (0: none)
StartedLevel(w, key) ==
    IF key = " " /\ w.gameState = "GS_LEVEL_CLEAR" THEN w.currentLevel + 1
    ELSE IF key = " " /\ w.gameState = "GS_GAMEOVER" THEN 1
    ELSE IF key \in {"r", "R"} /\ w.gameState \in {"GS_PLAYING", "GS_PAUSED"}
    THEN w.currentLevel
    ELSE IF key = "1" /\ w.gameState = "GS_MENU" THEN 1
    ELSE 0

\* keyboardDown, while fewer than n inputs have been followed
KeyDownUpTo(n, key) ==
    LET w1 == keyboardDown(World, key, clock)
        h1 == [ModeHist(HistAfter(hist, World, w1), World, w1, key)
                 EXCEPT !.gen = StartedLevel(World, key),
                        !.created = IF StartedLevel(World, key) >= 1 THEN 0
                                    ELSE @]
    IN InputUpTo(n, w1,
                 IF key = "a" THEN TRUE ELSE keyLeft,
                 IF key = "d" THEN TRUE ELSE keyRight,
                 key = "ESC" /\ gameState = "GS_MENU",
                 IF key = "p" /\ gameState = "GS_PLAYING"
                 THEN [h1 EXCEPT !.pauseAt = clock]
                 ELSE IF key = "p" /\ gameState = "GS_PAUSED"
                 THEN [h1 EXCEPT !.pauseAt = hist.pauseAt,
                                 !.resumeAt = clock,
                                 !.resumeElapsed = elapsedTime]
                 ELSE h1)

KeyboardDown(key) == KeyDownUpTo(MaxInputs, key)

KeyboardUp(key) ==
    InputStep(World, IF key = "a" THEN FALSE ELSE keyLeft,
              IF key = "d" THEN FALSE ELSE keyRight, FALSE,
              HistAfter(hist, World, World))

SpecialDown(key) ==
    InputStep(World, IF key = "LEFT" THEN TRUE ELSE keyLeft,
              IF key = "RIGHT" THEN TRUE ELSE keyRight, FALSE,
              HistAfter(hist, World, World))

SpecialUp(key) ==
    InputStep(World, IF key = "LEFT" THEN FALSE ELSE keyLeft,
              IF key = "RIGHT" THEN FALSE ELSE keyRight, FALSE,
              HistAfter(hist, World, World))

(***************************************************************************)
(* Initial states.  InitMain is the state main() builds before             *)
(* glutMainLoop.  The other initial states are snapshots of a game in      *)
(* progress: a grid that createBricksForLevel generated, with some bricks  *)
(* destroyed or damaged, the counters that go with it, perks that dead     *)
(* perk bricks dropped, and the ball in flight.                            *)
(***************************************************************************)
Blank ==
    [gameState |-> "GS_MENU", currentLevel |-> 1, ball |-> <<>>,
     paddle |-> <<>>, bricks |-> <<>>, perks |-> <<>>, projectiles |-> <<>>,
     score |-> 0, lives |-> 3, highScore |-> 0, bricksRemaining |-> 0,
     gameStartTime |-> 0, elapsedTime |-> 0, fireCooldown |-> 0,
     rng |-> <<0, 0>>, scoreFile |-> <<>>, highScoreFile |-> 0]

\* main(): srand(seed), loadHighScore, resetPaddleAndBall,
\* createBricksForLevel(currentLevel)
MainWorld(seed, file, hs) ==
    LET w0 == [Blank EXCEPT !.rng = Srand(seed), !.highScore = hs,
                            !.highScoreFile = hs,
                            !.scoreFile = [i \in 1..Len(file) |->
                                              FormatInt(file[i])]]
    IN createBricksForLevel(resetPaddleAndBall(w0), w0.currentLevel)

\* the initial state w, with the history h of how it came about
StartWith(w, kl, kr, clk, h) ==
    /\ gameState = w.gameState
    /\ currentLevel = w.currentLevel
    /\ ball = w.ball
    /\ paddle = w.paddle
    /\ bricks = w.bricks
    /\ perks = w.perks
    /\ projectiles = w.projectiles
    /\ score = w.score
    /\ lives = w.lives
    /\ highScore = w.highScore
    /\ bricksRemaining = w.bricksRemaining
    /\ gameStartTime = w.gameStartTime
    /\ elapsedTime = w.elapsedTime
    /\ fireCooldown = w.fireCooldown
    /\ rng = w.rng
    /\ scoreFile = w.scoreFile
    /\ highScoreFile = w.highScoreFile
    /\ keyLeft = kl
    /\ keyRight = kr
    /\ clock = clk
    /\ last = clk
    /\ exited = FALSE
    /\ hist = h

InitMain ==
    \E seed \in {1} :
        StartWith(MainWorld(seed, <<10, 20, 30, 40, 50>>, 50), FALSE, FALSE, 0,
                  HistNone)

\* A game in progress on the grid of `level` generated from rand() state
\* Srand(seed): the bricks outside `alive` are destroyed, those in `hurt`
\* took one hit, score counts 10 per destroyed brick and 5 per hit, the ball
\* flies from (bx, by) in direction ang at speed sp, perk i of `pk` is
\* <<type, dead perk brick that dropped it, y>>, the level has run for el ms,
\* and the earlier levels were cleared for 10 points a brick.
SnapWorld(level, seed, alive, hurt, bx, by, ang, sp, fire, pk, lv, px, el) ==
    LET g == createBricksForLevel(
               resetPaddleAndBall([Blank EXCEPT !.rng = Srand(seed)]), level)
        n == Len(g.bricks)
        before == IF level = 1 THEN 0
                  ELSE IF level = 2 THEN 10 * Rows(1) * Cols
                  ELSE 10 * (Rows(1) + Rows(2)) * Cols
        w1 == [resetPaddleAndBall(g) EXCEPT
                 !.gameState = "GS_PLAYING",
                 !.currentLevel = level,
                 !.bricks = [i \in 1..n |->
                               [hits |-> IF i \in hurt THEN 1
                                         ELSE g.bricks[i].hits,
                                alive |-> i \in alive,
                                type |-> g.bricks[i].type]],
                 !.bricksRemaining = Cardinality(alive \cap (1..n)),
                 !.score = before
                           + 10 * (n - Cardinality(alive \cap (1..n)))
                           + 5 * Cardinality(hurt),
                 !.lives = lv,
                 !.highScore = 50,
                 !.highScoreFile = 50,
                 !.scoreFile = [i \in 1..5 |->
                                  FormatInt(IF level > 1 /\ i = 1 THEN before
                                            ELSE 10 * i)],
                 !.perks = [i \in 1..Len(pk) |->
                              [x |-> BrickX(pk[i][2]) + BrickW \div 2,
                               y |-> pk[i][3], vy |-> -(150 * 10),
                               type |-> pk[i][1], alive |-> TRUE]],
                 !.gameStartTime = SnapClock - el,
                 !.elapsedTime = el]
        w2 == [w1 EXCEPT !.paddle.x = px,
                         !.ball = [w1.ball EXCEPT
                                     !.x = bx, !.y = by, !.speed = sp,
                                     !.vx = Round(sp * Cos(ang), 10000),
                                     !.vy = Round(sp * Sin(ang), 10000),
                                     !.stuck = FALSE, !.isFireball = fire,
                                     !.fireballTimer = IF fire THEN 5000
                                                       ELSE 0]]
    IN normalizeBallVelocity(w2)

\* the seed of the snapshot grids
SnapSeed == 1 + 1

\* level 2, fresh grid: the ball rises under the tough brick 43 of the bottom
\* row, or under the gap between bricks 43 and 44, as a fireball or not
SnapTough ==
    {SnapWorld(2, SnapSeed, 1..50, {}, bx, 3650, 90, 4200, fire, <<>>, 3,
               3400, 32000) :
        bx \in {BrickX(43) + BrickW \div 2, BrickX(43) + BrickW + 30},
        fire \in BOOLEAN}

\* level 1: bricks 14 and 15 (perk bricks) are gone and what they dropped has
\* fallen to just above the paddle
SnapPerks ==
    {SnapWorld(1, SnapSeed, (1..40) \ {14, 15}, {}, 1000, 2000, 60, 4000,
               FALSE, c[1], c[2], 2700, 32000) :
        c \in {<<(<<(<<t, 14, 700>>)>>), 1>> : t \in 0..5}
              \cup {<<(<<(<<5, 14, 700>>)>>), 2>>,
                    <<(<<(<<5, 14, 700>>), (<<0, 15, 700>>)>>), 1>>}}

\* level 1: brick 40 is the last one, the ball rises under it, with or
\* without a type-5 perk above the paddle, on the last life
SnapLast ==
    {SnapWorld(1, SnapSeed, {40}, {}, BrickX(40) + BrickW \div 2, 3950, 90,
               4000, FALSE, pk, 1, 2700, 32000) :
        pk \in {<<>>, <<(<<5, 14, 700>>)>>}}

\* level 1, fresh grid: the ball falls past the paddle
SnapMiss ==
    {SnapWorld(1, SnapSeed, 1..40, {}, 1000, 300, 270, 4000, FALSE, <<>>,
               lv, 2700, 32000) : lv \in {1, 2}}

\* level 1, fresh grid: the ball falls onto the paddle, at its centre or at
\* its left edge
SnapPaddle ==
    {SnapWorld(1, SnapSeed, 1..40, {}, bx, 800, 270, 4000, FALSE, <<>>, 3,
               2700, 32000) : bx \in {3300, 2650}}

\* level 1, fresh grid: the ball flies into the top right corner, 32.12 s
\* into the level
SnapWall ==
    {SnapWorld(1, SnapSeed, 1..40, {}, 7850, 5850, 45, 4000, FALSE, <<>>, 3,
               2700, 32120)}

\* level 1: perk brick gone[i] is destroyed and the perk of type got[i] that
\* it dropped was caught, which left the paddle pw wide and the ball (with the
\* ramp) at speed sp; perk brick drop[i][2] is destroyed too and its perk, of
\* type drop[i][1], has fallen to height drop[i][3]
SnapCaught(gone, got, drop, pw, sp) ==
    LET w == SnapWorld(1, SnapSeed,
                       (1..40) \ ({gone[i] : i \in 1..Len(gone)}
                                   \cup {drop[i][2] : i \in 1..Len(drop)}),
                       {}, 1000, 2000, 60, sp, FALSE,
                       drop,
                       3, 2700, 32000)
    IN [w EXCEPT
          !.paddle.w = pw,
          !.perks = [i \in 1..Len(gone) |->
                       [x |-> BrickX(gone[i]) + BrickW \div 2, y |-> 600,
                        vy |-> -(150 * 10), type |-> got[i],
                        alive |-> FALSE]] \o w.perks]

\* the paddle and the ball near their limits: 250 wide (four Wide-Paddle
\* perks, then a Shrink-Paddle) at 800 px/s (three Speed-Ball perks) with a
\* Wide-Paddle and a Speed-Ball perk above the paddle; 60 wide (two
\* Shrink-Paddle perks) with a third above the paddle and a missed perk almost
\* 40 pixels below the window; at 899.8 px/s with nothing falling
SnapCaps ==
    {SnapCaught(<<7, 12, 17, 19, 21, 32, 36, 39>>, <<1, 1, 2, 1, 2, 1, 2, 4>>,
                <<(<<1, 14, 700>>), (<<2, 15, 700>>)>>, 2500, 8000),
     SnapCaught(<<12, 17>>, <<4, 4>>, <<(<<4, 14, 700>>), (<<0, 15, -380>>)>>,
                600, 4000),
     SnapCaught(<<7, 12, 14>>, <<2, 2, 2>>, <<>>, 1200, 8998)}

\* level 2, fresh grid: the two projectiles of a click 628 ms ago rise under
\* the tough brick 43 and the brick 44 of the bottom row
SnapFire ==
    {[SnapWorld(2, SnapSeed, 1..50, {}, 1000, 2000, 60, 4200, FALSE, <<>>, 3,
                2000, 32000) EXCEPT
        !.projectiles = <<[x |-> 2000 + 10 * 10, y |-> 3800, vy |-> 500 * 10,
                           alive |-> TRUE],
                          [x |-> 2000 + 120 * 10 - 10 * 10, y |-> 3800,
                           vy |-> 500 * 10, alive |-> TRUE]>>,
        !.fireCooldown = -4]}

\* level 1, second life: the ball falls past the paddle while a perk falls
\* and two projectiles rise
SnapMissBusy ==
    {[SnapWorld(1, SnapSeed, (1..40) \ {14}, {}, 1000, 300, 270, 4000, FALSE,
                <<(<<1, 14, 2000>>)>>, 2, 2700, 32000) EXCEPT
        !.projectiles = <<[x |-> 2700 + 10 * 10, y |-> 2000, vy |-> 500 * 10,
                           alive |-> TRUE],
                          [x |-> 2700 + 120 * 10 - 10 * 10, y |-> 2000,
                           vy |-> 500 * 10, alive |-> TRUE]>>,
        !.fireCooldown = 32]}

Snapshots ==
    SnapTough \cup SnapPerks \cup SnapLast \cup SnapMiss \cup SnapPaddle
    \cup SnapWall \cup SnapCaps \cup SnapFire \cup SnapMissBusy

InitSnap ==
    \E w \in Snapshots :
        StartWith(w, FALSE, FALSE, SnapClock,
                  [HistNone EXCEPT
                     !.applied = [k \in 1..Len(w.perks) |->
                                    IF w.perks[k].alive THEN 0 ELSE 1],
                     !.created = Len(w.projectiles),
                     !.sinceFire =
                        IF Len(w.projectiles) = 0 THEN -1
                        ELSE ((w.projectiles[1].y
                               - (w.paddle.y + w.paddle.h)) * 1000)
                             \div w.projectiles[1].vy])

Next ==
    \/ \E gap \in TickGaps : TimerFunc(gap)
    \/ MouseClick
    \/ \E x \in MouseXs : PassiveMouse(x)
    \/ \E key \in Keys : KeyboardDown(key)
    \/ \E key \in {"a", "d"} : KeyboardUp(key)
    \/ \E key \in {"LEFT", "RIGHT"} : SpecialDown(key)
    \/ \E key \in {"LEFT", "RIGHT"} : SpecialUp(key)

Init == InitMain \/ InitSnap

Spec == Init /\ [][Next]_vars

(***************************************************************************)
(* Firing on its own: a game has just been started from the menu; the      *)
(* timer runs every 100 or 120 ms (dt is 100 ms either way), and the       *)
(* player clicks, pauses and resumes, and restarts the level.              *)
(***************************************************************************)
FireGaps == {100, 120}

InitFire ==
    StartWith(startNewGame(MainWorld(1, <<10, 20, 30, 40, 50>>, 50), 0),
              FALSE, FALSE, 0, [HistNone EXCEPT !.gen = 1])

FireTick(gap) == clock + gap <= MaxFireTime /\ TimerStep(gap)

FireClick ==
    InputUpTo(MaxFireInputs, mouseClick(World), keyLeft, keyRight, FALSE,
              MouseClickHist)

FireKey(key) == KeyDownUpTo(MaxFireInputs, key)

NextFire ==
    \/ \E gap \in FireGaps : FireTick(gap)
    \/ FireClick
    \/ \E key \in {"p", "r"} : FireKey(key)

SpecFire == InitFire /\ [][NextFire]_vars

(***************************************************************************)
(* Level generation on its own: main() has generated level 1 from a seed,  *)
(* and createBricksForLevel is then called for any level.                  *)
(***************************************************************************)
InitLevel ==
    \E seed \in 1..MaxSeed :
        StartWith(MainWorld(seed, <<10, 20, 30, 40, 50>>, 50), FALSE, FALSE, 0,
                  [HistNone EXCEPT !.gen = 1])

CreateBricksForLevel(level) ==
    /\ hist.inputs < MaxInputs
    /\ SetWorld(createBricksForLevel(World, level))
    /\ hist' = [hist EXCEPT !.gen = level, !.inputs = hist.inputs + 1]
    /\ UNCHANGED <<keyLeft, keyRight, clock, last, exited>>

NextLevel == \E level \in 1..MaxLevel : CreateBricksForLevel(level)

SpecLevel == InitLevel /\ [][NextLevel]_vars

(***************************************************************************)
(* Score persistence on its own: the program starts on files that hold     *)
(* some recent scores and a high score, and saveScore and saveHighScore    *)
(* are called with any score.                                              *)
(***************************************************************************)
\* the scores saved
SaveScores == {0, 25, 100}

InitScore ==
    \E n \in 0..MaxFileLen, hs \in {0, 50} :
        StartWith(MainWorld(1, [i \in 1..n |-> 10 * i], hs), FALSE, FALSE, 0,
                  [HistNone EXCEPT !.file0 = [i \in 1..n |-> 10 * i],
                                   !.hs0 = hs])

SaveScore(s) ==
    /\ Len(hist.saved) + Len(hist.highSaved) < MaxSaves
    /\ SetWorld(saveScore(World, s))
    /\ hist' = [hist EXCEPT !.saved = Append(hist.saved, s)]
    /\ UNCHANGED <<keyLeft, keyRight, clock, last, exited>>

SaveHighScore(s) ==
    /\ Len(hist.saved) + Len(hist.highSaved) < MaxSaves
    /\ SetWorld(saveHighScore(World, s))
    /\ hist' = [hist EXCEPT !.highSaved = Append(hist.highSaved, s),
                            !.hsPrev = highScore]
    /\ UNCHANGED <<keyLeft, keyRight, clock, last, exited>>

NextScore ==
    \/ \E s \in SaveScores : SaveScore(s)
    \/ \E s \in SaveScores : SaveHighScore(s)

SpecScore == InitScore /\ [][NextScore]_vars

(***************************************************************************)
(* The claims.                                                             *)
(***************************************************************************)
\* the largest element of a non-empty set of integers
MaxOf(S) == CHOOSE m \in S : \A n \in S : n <= m

\* the elements of a sequence
Range(q) == {q[i] : i \in 1..Len(q)}

\* a sequence, last element first
Reverse(q) == [i \in 1..Len(q) |-> q[Len(q) + 1 - i]]

\* C1: for every level L >= 1, createBricksForLevel(L) leaves exactly
\* min(3 + L, 8) * 10 bricks, all of them alive, and bricksRemaining equal to
\* that count.
C1_BrickCount ==
    hist.gen >= 1 =>
        LET count == (IF 3 + hist.gen < 8 THEN 3 + hist.gen ELSE 8) * 10
        IN /\ Len(bricks) = count
           /\ \A i \in 1..Len(bricks) : bricks[i].alive
           /\ bricksRemaining = count

\* a level past the cap of 8 rows was generated over an earlier grid
C1_Witness ==
    /\ hist.gen = 7
    /\ hist.inputs = 2
    /\ Len(bricks) = 80
    /\ bricksRemaining = 80

\* C6: saveScore(S) on a recent-scores list R leaves the first 5 elements of
\* S prepended to R; over the calls so far the file holds the first 5 of the
\* saved scores, most recent first, followed by the list it started with,
\* and never more than 5 entries.
C6_SaveScore ==
    hist.saved # <<>> =>
        LET all == Reverse(hist.saved) \o hist.file0
        IN /\ Len(scoreFile) <= 5
           /\ loadRecentScores(World)
                = SubSeq(all, 1, IF Len(all) < 5 THEN Len(all) ELSE 5)

\* R = [10,20,30,40,50] and S = 25 gave [25,10,20,30,40]
C6_Witness ==
    /\ hist.file0 = <<10, 20, 30, 40, 50>>
    /\ hist.saved = <<25>>
    /\ loadRecentScores(World) = <<25, 10, 20, 30, 40>>

\* C7: saveHighScore(s) changes the stored high score only when s is greater
\* than it, and then to s; the high score never decreases and is the maximum
\* of the value on start and all the scores saved.
C7_SaveHighScore ==
    hist.highSaved # <<>> =>
        LET s == hist.highSaved[Len(hist.highSaved)]
        IN /\ highScore = (IF s > hist.hsPrev THEN s ELSE hist.hsPrev)
           /\ highScore >= hist.hsPrev
           /\ highScore = MaxOf({hist.hs0} \cup Range(hist.highSaved))
           /\ highScoreFile = highScore

\* 100 was saved over 50, and saving 25 afterwards left 100
C7_Witness ==
    /\ hist.hs0 = 50
    /\ hist.highSaved = <<100, 25>>
    /\ highScore = 100
    /\ highScoreFile = 100

\* C2: in every reachable state the paddle lies fully inside the playfield,
\* 0 <= paddle.x <= WIN_W - paddle.w.
C2_PaddleInside ==
    /\ 0 <= paddle.x
    /\ paddle.x <= WIN_W - paddle.w

\* C3: a type-5 perk caught while lives = 1 leaves, at the end of that tick,
\* lives = 0, the score recorded as the most recent score, and the mode
\* GameOver, whatever else happened in the tick.
C3_DeathPerk ==
    hist.deathAtOne =>
        /\ lives = 0
        /\ gameState = "GS_GAMEOVER"
        /\ Len(scoreFile) >= 1
        /\ loadRecentScores(World)[1] = score

\* C4 as stated: the first non-fireball ball hit on a brick with hits = 2
\* leaves hits = 1, the brick alive and the score up by 5; the second
\* destroys it, with the score up by 10 in total and bricksRemaining down
\* by 1.
C4_TenInTotal ==
    /\ (hist.ballIdx # 0 /\ hist.ballBefore = 2) =>
           /\ hist.ballAfter = 1
           /\ hist.ballAlive
           /\ hist.ballScore = 5
           /\ hist.ballRem = 0
    /\ \A i \in DOMAIN hist.tough :
           hist.tough[i].n = 2 =>
               /\ ~bricks[i].alive
               /\ hist.tough[i].pts = 10
               /\ hist.tough[i].rem = 1

\* C4, amended: the first non-fireball ball hit on a brick with hits = 2
\* leaves hits = 1, the brick alive and the score up by 5; the second
\* destroys it and adds 10, so the score is up by 15 in total over the two
\* hits and bricksRemaining is down by 1.
C4_FifteenInTotal ==
    /\ (hist.ballIdx # 0 /\ hist.ballBefore = 2) =>
           /\ hist.ballAfter = 1
           /\ hist.ballAlive
           /\ hist.ballScore = 5
           /\ hist.ballRem = 0
    /\ \A i \in DOMAIN hist.tough :
           hist.tough[i].n = 2 =>
               /\ ~bricks[i].alive
               /\ hist.tough[i].pts = 15
               /\ hist.tough[i].rem = 1

\* the ball has just hit a two-hit brick for the second time
C4_Witness ==
    /\ hist.ballIdx \in DOMAIN hist.tough
    /\ hist.tough[hist.ballIdx].n = 2
    /\ hist.ballBefore = 1
    /\ ~bricks[hist.ballIdx].alive

\* C5: at the end of every tick in which the ball is not stuck, the
\* magnitude of the ball's velocity equals ball.speed (to 0.2 px/s, the
\* rounding of the fixed-point velocity components).
C5_SpeedKept ==
    (hist.ticked /\ ~ball.stuck) =>
        Abs(Sqrt(ball.vx * ball.vx + ball.vy * ball.vy) - ball.speed) <= 2

\* a tick in which a Speed-Ball perk raised the speed of the flying ball
C5_Witness ==
    /\ hist.ticked
    /\ ~ball.stuck
    /\ gameState = "GS_PLAYING"
    /\ ball.speed >= 4600
    /\ Len(perks) = 1
    /\ perks[1].type = 2
    /\ ~perks[1].alive

\* C8 as stated: the elapsed time of the first tick after a resume equals
\* the elapsed time held at the pause plus the play time since the resume.
C8_ElapsedExact ==
    hist.afterResume =>
        elapsedTime = hist.resumeElapsed + (clock - hist.resumeAt)

\* C8, amended: the elapsed time of the first tick after a resume is the
\* elapsed time held at the pause plus the play time since the resume, or
\* 1 ms less (the truncation of elapsedTime * 1000.0 to int), however long
\* the pause lasted.
C8_ElapsedWithinOneMs ==
    hist.afterResume =>
        (hist.resumeElapsed + (clock - hist.resumeAt)) - elapsedTime
            \in {0, 1}

\* the first tick after a resume that followed a pause of at least 40 ms
C8_Witness ==
    /\ hist.afterResume
    /\ hist.pauseAt >= 0
    /\ hist.resumeAt - hist.pauseAt >= 40
    /\ clock > hist.resumeAt

\* the (mode, event, mode) triples of the claim
ModeTable ==
    {<<"GS_MENU", "1", "GS_PLAYING">>,
     <<"GS_MENU", "2", "GS_SCOREBOARD">>,
     <<"GS_MENU", "3", "GS_MUSIC_MENU">>,
     <<"GS_MENU", "4", "GS_HELP">>,
     <<"GS_PLAYING", "p", "GS_PAUSED">>,
     <<"GS_PAUSED", "p", "GS_PLAYING">>,
     <<"GS_PLAYING", "tick", "GS_LEVEL_CLEAR">>,
     <<"GS_PLAYING", "tick", "GS_GAMEOVER">>,
     <<"GS_LEVEL_CLEAR", " ", "GS_PLAYING">>,
     <<"GS_GAMEOVER", " ", "GS_PLAYING">>,
     <<"GS_PAUSED", "r", "GS_PLAYING">>}
    \cup {<<m, "ESC", "GS_MENU">> : m \in GameStates \ {"GS_MENU"}}

\* the mode changed by a triple of T, a tick to LevelClear with the bricks
\* depleted and a tick to GameOver with the lives depleted
ModeChangeIn(T) ==
    hist.modeEvent # "" =>
        /\ <<hist.modeFrom, hist.modeEvent, gameState>> \in T
        /\ (hist.modeEvent = "tick" /\ gameState = "GS_LEVEL_CLEAR")
              => bricksRemaining <= 0
        /\ (hist.modeEvent = "tick" /\ gameState = "GS_GAMEOVER")
              => (lives <= 0 \/ hist.deathAtOne)

\* C9 as stated: the mode changes only by the pairs Menu+start, Menu+2,
\* Menu+3, Menu+4, Playing+pause, Paused+pause, Playing+bricks depleted,
\* Playing+lives depleted, LevelClear+advance, GameOver+restart,
\* Playing/Paused+level-restart and non-Menu+cancel; every other pair leaves
\* it unchanged.
C9_ModeTable == ModeChangeIn(ModeTable)

\* C9, amended: the mode changes only by the pairs of the claim and by
\* MusicMenu+1 -> Menu and MusicMenu+2 -> Menu; every other pair leaves it
\* unchanged.
C9_ModeTableWithMusic ==
    ModeChangeIn(ModeTable \cup {<<"GS_MUSIC_MENU", "1", "GS_MENU">>,
                                 <<"GS_MUSIC_MENU", "2", "GS_MENU">>})

\* a choice in the music menu has just led back to the menu
C9_Witness ==
    /\ hist.modeFrom = "GS_MUSIC_MENU"
    /\ hist.modeEvent = "1"
    /\ gameState = "GS_MENU"

\* C10 as stated: in one tick the brick-collision step changes the hit count
\* or the alive flag of at most one brick, also for a fireball.
C10_OneBrick == hist.ticked => hist.ballN <= 1

\* C10, amended: in one tick the brick-collision step of a non-fireball ball
\* changes at most one brick (the first alive brick it overlaps); that of a
\* fireball destroys every alive brick it overlaps.
C10_OneBrickUnlessFireball ==
    hist.ticked =>
        /\ ~hist.ballFire =>
              hist.ballN = (IF hist.ballOverlap >= 1 THEN 1 ELSE 0)
        /\ hist.ballFire => hist.ballN = hist.ballOverlap

\* a non-fireball ball overlapped two alive bricks and changed one
C10_Witness ==
    /\ hist.ticked
    /\ ~hist.ballFire
    /\ hist.ballOverlap = 2
    /\ hist.ballN = 1

(***************************************************************************)
(* C11: when level L is started (new game, level advance or level restart) *)
(* the speed of the ball is min(380 + 30 * (L - 1), 900) pixels a second.  *)
(* Violated: startLevel and startNewGame call resetPaddleAndBall after     *)
(* createBricksForLevel, which puts the speed back to 380.                 *)
(***************************************************************************)
C11_LevelSpeed ==
    (hist.gen >= 1 /\ gameState = "GS_PLAYING")
        => ball.speed = LevelSpeed(currentLevel)

(***************************************************************************)
(* C12: in every reachable state the paddle is between 40 and 280 pixels   *)
(* wide and the ball speed is at most 900 pixels a second.                 *)
(***************************************************************************)
C12_Limits ==
    /\ paddle.w >= 40 * 10
    /\ paddle.w <= 280 * 10
    /\ ball.speed <= BALL_SPEED_MAX

\* a tick caught a Wide-Paddle and a Speed-Ball perk that would have taken
\* the paddle to 290 pixels and the ball to 920 pixels a second
C12_Witness ==
    /\ hist.ticked
    /\ Len(perks) = 10
    /\ ~perks[9].alive /\ perks[9].type = 1
    /\ ~perks[10].alive /\ perks[10].type = 2
    /\ paddle.w = 280 * 10
    /\ ball.speed = BALL_SPEED_MAX

(***************************************************************************)
(* C13: in every reachable state bricksRemaining is the number of bricks   *)
(* whose alive flag is true.                                               *)
(***************************************************************************)
C13_Remaining ==
    bricksRemaining = Cardinality({i \in 1..Len(bricks) : bricks[i].alive})

\* a tick in which a projectile destroyed a brick: the projectile is spent
\* inside a brick that is gone
C13_Witness ==
    /\ hist.ticked
    /\ \E j \in 1..Len(projectiles), i \in 1..Len(bricks) :
          /\ ~projectiles[j].alive
          /\ ~bricks[i].alive
          /\ projectiles[j].x > BrickX(i)
          /\ projectiles[j].x < BrickX(i) + BrickW
          /\ projectiles[j].y > BrickY(i)
          /\ projectiles[j].y < BrickY(i) + BrickH

(***************************************************************************)
(* C14: the effect of a perk is applied at most once: a perk that was      *)
(* caught, or that fell more than 40 pixels below the window, is dead, no  *)
(* later tick applies it, and no handler makes a dead perk alive again.    *)
(***************************************************************************)
C14_AppliedOnce ==
    /\ ~hist.revived
    /\ \A k \in 1..Len(perks) : perks[k].alive => perks[k].y >= -(40 * 10)
    /\ \A k \in 1..Len(hist.applied) :
          /\ hist.applied[k] <= 1
          /\ hist.applied[k] = 1 => (k <= Len(perks) /\ ~perks[k].alive)

\* a tick has caught one perk and let another fall out of the window, and a
\* later tick has run over both
C14_Witness ==
    /\ hist.ticked
    /\ clock = SnapClock + 2 * 40
    /\ Len(perks) = 4
    /\ hist.applied = <<1, 1, 1, 0>>
    /\ ~perks[3].alive
    /\ ~perks[4].alive /\ perks[4].y < -(40 * 10)

\* the first n elements of s (all of s if it has fewer)
First(n, s) == SubSeq(s, 1, Min(n, Len(s)))

\* the scores a score file holds
RecentOf(file) == [i \in 1..Len(file) |-> ParseInt(file[i])]

(***************************************************************************)
(* C15: a tick that ends the game or clears the level puts exactly one     *)
(* entry, the current score, in front of the recent scores (of which the   *)
(* file keeps MAX_RECENT); no other tick and no input event changes them.  *)
(* Violated: a type-5 perk caught on the last life saves the score, and    *)
(* the same tick goes on to clear the level and saves it again (C3).       *)
(***************************************************************************)
C15_OneEntry ==
    [][IF gameState = "GS_PLAYING"
          /\ gameState' \in {"GS_GAMEOVER", "GS_LEVEL_CLEAR"}
       THEN RecentOf(scoreFile')
              = First(MAX_RECENT, <<score'>> \o RecentOf(scoreFile))
       ELSE RecentOf(scoreFile') = RecentOf(scoreFile)]_vars

(***************************************************************************)
(* C16: in every reachable state whose mode is Playing, Paused, LevelClear *)
(* or GameOver, lives <= 0 holds exactly when the mode is GameOver.        *)
(* Violated: the tick that catches a type-5 perk on the last life goes on  *)
(* (C3) and can end in LevelClear with lives = 0, or in GameOver with      *)
(* lives = 1 after an Extra-Life perk.                                     *)
(***************************************************************************)
C16_LivesAndMode ==
    gameState \in {"GS_PLAYING", "GS_PAUSED", "GS_LEVEL_CLEAR", "GS_GAMEOVER"}
        => ((lives <= 0) <=> (gameState = "GS_GAMEOVER"))

(***************************************************************************)
(* C17: a tick in which the lower edge of the ball reaches the bottom of   *)
(* the window takes one life and returns: the mode is GameOver if no life  *)
(* is left, and otherwise still Playing with the ball stuck to the paddle; *)
(* bricks, bricksRemaining, score, perks and projectiles are as before.    *)
(***************************************************************************)
C17_Miss ==
    [][hist'.missed =>
         /\ lives' = lives - 1
         /\ IF lives' <= 0 THEN gameState' = "GS_GAMEOVER"
            ELSE gameState' = "GS_PLAYING" /\ ball'.stuck
         /\ UNCHANGED <<bricks, bricksRemaining, score, perks,
                        projectiles>>]_vars

\* the ball was missed on the second life with a perk and projectiles in
\* flight
C17_Witness ==
    /\ hist.missed
    /\ lives = 1
    /\ gameState = "GS_PLAYING"
    /\ ball.stuck
    /\ \E k \in 1..Len(perks) : perks[k].alive
    /\ \E j \in 1..Len(projectiles) : projectiles[j].alive

(***************************************************************************)
(* C18: after every paddle collision the ball flies within 75 degrees of   *)
(* straight up (so vy > 0); equivalently the offset ratio                  *)
(* (ball.x - paddle centre) / (paddle.w / 2) of the bounce is in [-1, 1].  *)
(* The direction is tested as |vx| * cos 75 <= vy * sin 75, with one unit  *)
(* of each component for the rounding.                                     *)
(* Violated: handlePaddleCollision lets the ball hit with its centre up to *)
(* a radius outside the paddle, and bounceBallOffPaddle does not clamp.    *)
(***************************************************************************)
C18_Within75 ==
    hist.bounced =>
        /\ hist.bounceVy > 0
        /\ Abs(hist.bounceVx) * Sin(15) <= hist.bounceVy * Sin(75)
                                             + Sin(15) + Sin(75)
        /\ Abs(hist.bounceOff) <= hist.bounceHalf

\* the grid is the untouched grid of level `level`
FreshGrid(level) ==
    /\ Len(bricks) = Rows(level) * Cols
    /\ \A i \in 1..Len(bricks) : bricks[i].alive /\ bricks[i].hits \in {1, 2}
    /\ bricksRemaining = Len(bricks)

(***************************************************************************)
(* C19: the advance action in LevelClear (the space bar) adds exactly 1 to *)
(* currentLevel and enters Playing with the fresh grid of the new level,   *)
(* no perks, no projectiles, the ball stuck and elapsed time 0; score and  *)
(* lives are unchanged.                                                    *)
(***************************************************************************)
C19_Advance ==
    [][(gameState = "GS_LEVEL_CLEAR" /\ hist'.gen >= 1) =>
         /\ currentLevel' = currentLevel + 1
         /\ gameState' = "GS_PLAYING"
         /\ FreshGrid(currentLevel)'
         /\ perks' = <<>>
         /\ projectiles' = <<>>
         /\ ball'.stuck
         /\ elapsedTime' = 0
         /\ score' = score
         /\ lives' = lives]_vars

\* level 1 was cleared with 400 points and the space bar has started level 2
C19_Witness ==
    /\ hist.gen = 2
    /\ hist.modeFrom = "GS_LEVEL_CLEAR"
    /\ hist.modeEvent = " "
    /\ gameState = "GS_PLAYING"
    /\ currentLevel = 2
    /\ score = 400
    /\ Len(bricks) = 50

(***************************************************************************)
(* C20: starting a new game ('1' in the menu, the space bar in GameOver)   *)
(* always gives level 1, score 0, 3 lives, elapsed time 0, the ball stuck  *)
(* and the mode Playing, whatever the game before it left behind.          *)
(***************************************************************************)
C20_NewGame ==
    [][(gameState \in {"GS_MENU", "GS_GAMEOVER"} /\ hist'.gen >= 1) =>
         /\ currentLevel' = 1
         /\ score' = 0
         /\ lives' = 3
         /\ elapsedTime' = 0
         /\ ball'.stuck
         /\ gameState' = "GS_PLAYING"]_vars

\* a game that had cleared level 1 was abandoned with ESC and '1' in the menu
\* has started a new one
C20_Witness ==
    /\ hist.gen = 1
    /\ hist.modeFrom = "GS_MENU"
    /\ hist.modeEvent = "1"
    /\ hist.inputs = 2
    /\ clock >= SnapClock
    /\ RecentOf(scoreFile)[1] = 400
    /\ gameState = "GS_PLAYING"
    /\ currentLevel = 1
    /\ Len(bricks) = 40

(***************************************************************************)
(* C21: a primary click pushes exactly two projectiles when the mode is    *)
(* Playing and the fire cooldown has run out, and none otherwise; between  *)
(* two clicks that push projectiles at least 0.3 s of play time (the dt of *)
(* the ticks in Playing) has passed; the number of projectiles pushed      *)
(* since the last level start is even.                                     *)
(***************************************************************************)
C21_Fire ==
    /\ IF gameState = "GS_PLAYING" /\ fireCooldown <= 0
       THEN /\ Len(mouseClick(World).projectiles) = Len(projectiles) + 2
            /\ SubSeq(mouseClick(World).projectiles, 1, Len(projectiles))
                 = projectiles
       ELSE mouseClick(World).projectiles = projectiles
    /\ hist.fired => (hist.firedAfter = -1 \/ hist.firedAfter >= FIRE_RATE)
    /\ hist.created % 2 = 0
    /\ hist.created = Len(projectiles)

\* the second firing click of a level, with a pause between the two
C21_Witness ==
    /\ hist.fired
    /\ hist.firedAfter >= FIRE_RATE
    /\ hist.created = 4
    /\ hist.inputs = 4
    /\ clock > hist.firedAfter + 100

\* what C22 says stays as it is
Frame(w) ==
    <<w.ball, w.paddle, w.bricks, w.perks, w.projectiles, w.score, w.lives,
      w.bricksRemaining, w.elapsedTime>>

(***************************************************************************)
(* C22: while the mode is not Playing, timer ticks, pointer motion and     *)
(* primary clicks leave ball, paddle, bricks, perks, projectiles, score,   *)
(* lives, bricksRemaining and elapsed time unchanged.  A step that moves   *)
(* the clock is a timer tick; the two mouse handlers are applied to every  *)
(* state a step leaves.                                                    *)
(***************************************************************************)
C22_Frozen ==
    [][gameState # "GS_PLAYING" =>
         /\ clock' # clock => Frame(World)' = Frame(World)
         /\ Frame(mouseClick(World)) = Frame(World)
         /\ \A x \in MouseXs :
               Frame(passiveMouse(World, x)) = Frame(World)]_vars

\* a timer tick has run while the game was paused with the ball, a perk and
\* projectiles in flight and the fire cooldown run out
C22_Witness ==
    /\ gameState = "GS_PAUSED"
    /\ hist.pauseAt >= 0
    /\ clock > hist.pauseAt
    /\ ~ball.stuck
    /\ fireCooldown <= 0
    /\ \E k \in 1..Len(perks) : perks[k].alive
    /\ \E j \in 1..Len(projectiles) : projectiles[j].alive

\* createBricksForLevel(level), called after srand(seed), pushes a brick with
\* hits = 2
ToughFrom(seed, level) ==
    \E i \in 1..(Rows(level) * Cols) :
        createBricksForLevel([World EXCEPT !.rng = Srand(seed)],
                             level).bricks[i].hits = 2

(***************************************************************************)
(* C23: every generated brick has hits 1 or 2; every brick generated for   *)
(* level 1 has hits 1; on every level L >= 2 a tough brick (hits 2) can be *)
(* generated (it is, from some seed in 1..MaxSeed); every brick generated  *)
(* for a level L >= 8 is tough.                                            *)
(***************************************************************************)
C23_Hits ==
    hist.gen >= 1 =>
        /\ \A i \in 1..Len(bricks) : bricks[i].hits \in {1, 2}
        /\ hist.gen = 1 => \A i \in 1..Len(bricks) : bricks[i].hits = 1
        /\ hist.gen >= 2 => \E seed \in 1..MaxSeed : ToughFrom(seed, hist.gen)
        /\ hist.gen >= 8 => \A i \in 1..Len(bricks) : bricks[i].hits = 2

\* level 8 was generated over an earlier grid: 80 bricks, all tough
C23_Witness ==
    /\ hist.gen = 8
    /\ hist.inputs = 2
    /\ Len(bricks) = 80
    /\ \A i \in 1..Len(bricks) : bricks[i].hits = 2

=============================================================================
